---------------------------- MODULE Spec2Model ----------------------------
(***************************************************************************)
(* Model of the notification pipeline of ravijar/telegram-bot:             *)
(*   google_sheets_handler.py : fetch_data, filter_not_yet,                *)
(*                              group_by_handle_by                         *)
(*   telegram_bot.py          : escape_markdown, generate_messages,        *)
(*                              send_messages                              *)
(*                                                                         *)
(* Text is a sequence of one-character strings; the fixed fragments of a   *)
(* message template are single multi-character elements.  A Python dict    *)
(* that the code iterates is a sequence of <<key, value>> pairs in         *)
(* insertion order.  None is the empty sequence <<>> and a present value v *)
(* is <<v>> wherever the code distinguishes "absent" from a value.         *)
(* Calendar dates are day numbers.                                         *)
(***************************************************************************)
EXTENDS Integers, Sequences, FiniteSets, TLC

VARIABLES
    \* ---- send_messages (telegram_bot.py) ----
    telegram_ids,   \* the directory: handler -> identifier
    messages,       \* handler -> list of bodies, as a sequence of pairs
    pc,             \* position of the delivery loop
    h,              \* index of the handler being processed
    m,              \* index of the body being processed
    sent,           \* local "sent" of the retry loop
    attempts,       \* local "attempts" of the retry loop
    log,            \* transport calls and sleeps made for the current body
    status,         \* how the processing of every body ended
    \* ---- fetch_data / filter_not_yet / group_by_handle_by ----
    all_data,       \* locator index -> fetched values
    fetched,        \* per locator: "ok" or "failed", in fetch order
    data_list,      \* the list of rows a stage works on
    grouped_data,   \* the argument of generate_messages
    blocks,         \* the values generate_messages put into each block
    today,          \* datetime.now().date() as read by the stage
    result,         \* what the stage returned
    stage           \* which call has been made

sendVars  == <<telegram_ids, messages, pc, h, m, sent, attempts, log, status>>
sheetVars == <<all_data, fetched, data_list, grouped_data, blocks, today,
               result, stage>>
vars      == <<telegram_ids, messages, pc, h, m, sent, attempts, log, status,
               all_data, fetched, data_list, grouped_data, blocks, today,
               result, stage>>

(***************************************************************************)
(* Text helpers.                                                           *)
(***************************************************************************)
None == <<>>

Some(v) == <<v>>

\* str.strip(): whitespace characters of the alphabets used here
Whitespace == {" ", "\t", "\n"}

RECURSIVE LStrip(_)
LStrip(s) ==
    IF s # <<>> /\ Head(s) \in Whitespace THEN LStrip(Tail(s)) ELSE s

RECURSIVE RStrip(_)
RStrip(s) ==
    IF s # <<>> /\ s[Len(s)] \in Whitespace
    THEN RStrip(SubSeq(s, 1, Len(s) - 1))
    ELSE s

Strip(s) == RStrip(LStrip(s))

\* str.lower() on the letters used here
UpperLetters == <<"A", "B", "C", "D", "E", "F", "G", "H", "I", "J", "K", "L", "M", "N", "O", "P", "Q", "R", "S", "T", "U", "V", "W", "X", "Y", "Z">>

LowerLetters == <<"a", "b", "c", "d", "e", "f", "g", "h", "i", "j", "k", "l", "m", "n", "o", "p", "q", "r", "s", "t", "u", "v", "w", "x", "y", "z">>

LetterIndex(c, alphabet) == CHOOSE i \in 1..Len(alphabet) : alphabet[i] = c

IsUpper(c) == \E i \in 1..Len(UpperLetters) : UpperLetters[i] = c

IsLower(c) == \E i \in 1..Len(LowerLetters) : LowerLetters[i] = c

LowerChar(c) ==
    IF IsUpper(c) THEN LowerLetters[LetterIndex(c, UpperLetters)] ELSE c

UpperChar(c) ==
    IF IsLower(c) THEN UpperLetters[LetterIndex(c, LowerLetters)] ELSE c

Lower(s) == [i \in 1..Len(s) |-> LowerChar(s[i])]

\* dict.get(key, default) on a row
Get(row, key, default) == IF key \in DOMAIN row THEN row[key] ELSE default

\* the field names the code reads
K_checked == <<"c", "h", "e", "c", "k", "e", "d">>

K_handOver == <<"h", "a", "n", "d", "O", "v", "e", "r">>

K_dueDate == <<"d", "u", "e", "D", "a", "t", "e">>

K_handleBy == <<"h", "a", "n", "d", "l", "e", "B", "y">>

K_assignment == <<"a", "s", "s", "i", "g", "n", "m", "e", "n", "t">>

K_customerName == <<"c", "u", "s", "t", "o", "m", "e", "r", "N", "a", "m", "e">>

(***************************************************************************)
(* send_messages                                                           *)
(***************************************************************************)
MAX_RETRIES == 5

RETRY_DELAY_SECONDS == 5

MaxRecipients == 2

HandlerNames == << <<"a">>, <<"b">>, <<"c">>, <<"d">> >>

NameIndex(k) == CHOOSE i \in 1..Len(HandlerNames) : HandlerNames[i] = k

\* retry_after values a rate-limited reply can carry
RetryAfterValues == {1, 3}

\* bodies: empty, whitespace-only, and real ones (one with leading whitespace)
Hi == <<"h", "i">>

Yo == <<" ", "y", "o">>

Blank == <<" ", "\n">>

\* the directory entry (None: no entry) and the message list of one recipient
RecipientCases ==
    { [id |-> None,    msgs |-> <<Hi>>],
      [id |-> Some(0), msgs |-> <<Hi, Yo>>],
      [id |-> Some(7), msgs |-> <<>>],
      [id |-> Some(7), msgs |-> << <<>>, Blank, Hi >>],
      [id |-> Some(7), msgs |-> <<Yo, Hi>>] }

\* dict.get(key) on the directory: None when the key is absent
DirGet(d, k) == IF k \in DOMAIN d THEN Some(d[k]) ELSE None

\* variant: only a missing entry is falsy
Truthy_NotNone(opt) == opt # None

\* Python truth of "telegram_id": None and 0 are falsy
Truthy(opt) == opt # None /\ opt[1] # 0

Handler(i) == messages[i][1]

Msgs(i) == messages[i][2]

SetStatus(i, j, v) == [status EXCEPT ![i][j] = v]

\* the variables of the stages that are not running stay at these values
SendIdle ==
    /\ telegram_ids = <<>>
    /\ messages = <<>>
    /\ pc = "idle"
    /\ h = 0
    /\ m = 0
    /\ sent = FALSE
    /\ attempts = 0
    /\ log = <<>>
    /\ status = <<>>

SheetIdle ==
    /\ all_data = <<>>
    /\ fetched = <<>>
    /\ data_list = <<>>
    /\ grouped_data = <<>>
    /\ blocks = <<>>
    /\ today = 0
    /\ result = <<>>
    /\ stage = "none"

SendInit ==
    /\ SheetIdle
    /\ \E n \in 0..MaxRecipients :
         \E rc \in [1..n -> RecipientCases] :
            /\ messages = [i \in 1..n |-> <<HandlerNames[i], rc[i].msgs>>]
            /\ telegram_ids =
                 [k \in {HandlerNames[i] : i \in {j \in 1..n : rc[j].id # None}}
                    |-> rc[NameIndex(k)].id[1]]
    /\ pc = "handler"
    /\ h = 1
    /\ m = 1
    /\ sent = FALSE
    /\ attempts = 0
    /\ log = <<>>
    /\ status = [i \in 1..Len(messages) |->
                    [j \in 1..Len(Msgs(i)) |-> "pending"]]

\* for handler, msgs in messages.items(): ... if not telegram_id: continue
SkipHandler ==
    /\ pc = "handler"
    /\ h <= Len(messages)
    /\ ~Truthy(DirGet(telegram_ids, Handler(h)))
    /\ status' = [status EXCEPT ![h] = [j \in 1..Len(Msgs(h)) |-> "skipped"]]
    /\ h' = h + 1
    /\ UNCHANGED <<telegram_ids, messages, pc, m, sent, attempts, log>>
    /\ UNCHANGED sheetVars

EnterHandler ==
    /\ pc = "handler"
    /\ h <= Len(messages)
    /\ Truthy(DirGet(telegram_ids, Handler(h)))
    /\ m' = 1
    /\ pc' = "msg"
    /\ UNCHANGED <<telegram_ids, messages, h, sent, attempts, log, status>>
    /\ UNCHANGED sheetVars

\* the outer for loop is exhausted: send_messages returns
Return ==
    /\ pc = "handler"
    /\ h > Len(messages)
    /\ pc' = "done"
    /\ UNCHANGED <<telegram_ids, messages, h, m, sent, attempts, log, status>>
    /\ UNCHANGED sheetVars

\* for msg in msgs: exhausted, back to the outer loop
LeaveHandler ==
    /\ pc = "msg"
    /\ m > Len(Msgs(h))
    /\ h' = h + 1
    /\ pc' = "handler"
    /\ UNCHANGED <<telegram_ids, messages, m, sent, attempts, log, status>>
    /\ UNCHANGED sheetVars

\* if not msg.strip(): continue
SkipMsg ==
    /\ pc = "msg"
    /\ m <= Len(Msgs(h))
    /\ Strip(Msgs(h)[m]) = <<>>
    /\ status' = SetStatus(h, m, "skipped")
    /\ m' = m + 1
    /\ UNCHANGED <<telegram_ids, messages, pc, h, sent, attempts, log>>
    /\ UNCHANGED sheetVars

\* sent = False; attempts = 0
StartMsg ==
    /\ pc = "msg"
    /\ m <= Len(Msgs(h))
    /\ Strip(Msgs(h)[m]) # <<>>
    /\ sent' = FALSE
    /\ attempts' = 0
    /\ log' = <<>>
    /\ pc' = "while"
    /\ UNCHANGED <<telegram_ids, messages, h, m, status>>
    /\ UNCHANGED sheetVars

\* variant: the bound test is off by one
LoopCond_OffByOne == ~sent /\ attempts <= MAX_RETRIES

LoopCond == ~sent /\ attempts < MAX_RETRIES

\* one call of bot.send_message and what it did; secs is the retry_after the
\* failure carried (0 when it carried none)
SendCall(outcome, retry_after) ==
    [op |-> "send", to |-> telegram_ids[Handler(h)], text |-> Msgs(h)[m],
     outcome |-> outcome, secs |-> retry_after]

SleepCall(secs) ==
    [op |-> "sleep", to |-> 0, text |-> <<>>, outcome |-> "", secs |-> secs]

\* variant: a successful send does not set "sent"
SendOk_SentNotSet ==
    /\ pc = "while"
    /\ ~sent /\ attempts < MAX_RETRIES
    /\ log' = Append(log, [op |-> "send", to |-> telegram_ids[Handler(h)],
                           text |-> Msgs(h)[m], outcome |-> "ok", secs |-> 0])
    /\ attempts' = attempts + 1
    /\ UNCHANGED <<telegram_ids, messages, pc, h, m, sent, status>>
    /\ UNCHANGED sheetVars

\* bot.send_message(...) returns: sent = True; attempts += 1
SendOk ==
    /\ pc = "while"
    /\ LoopCond
    /\ log' = Append(log, SendCall("ok", 0))
    /\ sent' = TRUE
    /\ attempts' = attempts + 1
    /\ UNCHANGED <<telegram_ids, messages, pc, h, m, status>>
    /\ UNCHANGED sheetVars

\* except RetryAfter as e: time.sleep(e.retry_after); attempts += 1
SendRetryAfter ==
    /\ pc = "while"
    /\ LoopCond
    /\ \E t \in RetryAfterValues :
         log' = log \o <<SendCall("retry_after", t), SleepCall(t)>>
    /\ attempts' = attempts + 1
    /\ UNCHANGED <<telegram_ids, messages, pc, h, m, sent, status>>
    /\ UNCHANGED sheetVars

\* except NetworkError: time.sleep(RETRY_DELAY_SECONDS); attempts += 1
SendNetworkError ==
    /\ pc = "while"
    /\ LoopCond
    /\ log' = log \o <<SendCall("network", 0), SleepCall(RETRY_DELAY_SECONDS)>>
    /\ attempts' = attempts + 1
    /\ UNCHANGED <<telegram_ids, messages, pc, h, m, sent, status>>
    /\ UNCHANGED sheetVars

\* variant: the failure leaves send_messages instead of the retry loop
SendOtherFailure_Return ==
    /\ pc = "while"
    /\ ~sent /\ attempts < MAX_RETRIES
    /\ log' = Append(log, [op |-> "send", to |-> telegram_ids[Handler(h)],
                           text |-> Msgs(h)[m], outcome |-> "other", secs |-> 0])
    /\ status' = [status EXCEPT ![h][m] = "abandoned"]
    /\ pc' = "done"
    /\ UNCHANGED <<telegram_ids, messages, h, m, sent, attempts>>
    /\ UNCHANGED sheetVars

\* except Exception: log the failure; break
SendOtherFailure ==
    /\ pc = "while"
    /\ LoopCond
    /\ log' = Append(log, SendCall("other", 0))
    /\ status' = SetStatus(h, m, "abandoned")
    /\ m' = m + 1
    /\ pc' = "msg"
    /\ UNCHANGED <<telegram_ids, messages, h, sent, attempts>>
    /\ UNCHANGED sheetVars

\* variant: running out of attempts ends the whole delivery
EndWhile_StopOnExhaust ==
    /\ pc = "while"
    /\ ~(~sent /\ attempts < MAX_RETRIES)
    /\ status' = [status EXCEPT
                    ![h][m] = IF sent THEN "delivered" ELSE "exhausted"]
    /\ m' = m + 1
    /\ pc' = IF sent THEN "msg" ELSE "done"
    /\ UNCHANGED <<telegram_ids, messages, h, sent, attempts, log>>
    /\ UNCHANGED sheetVars

\* the while condition is false: on to the next body
EndWhile ==
    /\ pc = "while"
    /\ ~LoopCond
    /\ status' = SetStatus(h, m, IF sent THEN "delivered" ELSE "exhausted")
    /\ m' = m + 1
    /\ pc' = "msg"
    /\ UNCHANGED <<telegram_ids, messages, h, sent, attempts, log>>
    /\ UNCHANGED sheetVars

SendNext ==
    \/ SkipHandler
    \/ EnterHandler
    \/ Return
    \/ LeaveHandler
    \/ SkipMsg
    \/ StartMsg
    \/ SendOk
    \/ SendRetryAfter
    \/ SendNetworkError
    \/ SendOtherFailure
    \/ EndWhile

Spec ==
    /\ SendInit
    /\ [][SendNext]_vars

\* send_messages is one sequential call: it keeps running until it returns
SpecFair == Spec /\ WF_vars(SendNext)

(***************************************************************************)
(* Properties of send_messages                                             *)
(***************************************************************************)
SendIdx(l) == {i \in DOMAIN l : l[i].op = "send"}

SleepIdx(l) == {i \in DOMAIN l : l[i].op = "sleep"}

NumSends(l) == Cardinality(SendIdx(l))

NumSleeps(l) == Cardinality(SleepIdx(l))

Retryable == {"retry_after", "network"}

AllOutcomes(l, o) == \A i \in SendIdx(l) : l[i].outcome = o

\* should body j of recipient i be handed to the transport?
Sendable(i, j) ==
    /\ Handler(i) \in DOMAIN telegram_ids
    /\ telegram_ids[Handler(i)] # 0
    /\ Strip(Msgs(i)[j]) # <<>>

Attempted == {"delivered", "abandoned", "exhausted"}

AllBodies ==
    UNION {{<<i, j>> : j \in 1..Len(Msgs(i))} : i \in 1..Len(messages)}

\* C1: no body is handed to the transport more than MAX_RETRIES (5) times;
\* every rate-limited or network failure uses up one attempt, so a transport
\* that always answers rate-limited (or always a network error) is called
\* exactly 5 times for the body and then the retry loop is over.
C1_AttemptsBounded ==
    /\ NumSends(log) <= MAX_RETRIES
    /\ attempts <= MAX_RETRIES
    /\ pc = "while" => attempts = NumSends(log)
    /\ (pc = "while" /\ \A i \in SendIdx(log) : log[i].outcome \in Retryable) =>
            (LoopCond <=> NumSends(log) < 5)

C1_Witness ==
    /\ pc = "while"
    /\ ~LoopCond
    /\ NumSends(log) = 5
    /\ AllOutcomes(log, "retry_after")

\* C2: k retryable failures (k < 5) followed by a success are exactly k+1
\* transport calls; no sleep precedes the first call; every later call comes
\* right after exactly one sleep, of retry_after seconds after a rate-limited
\* failure and of 5 seconds after a network error; nothing follows the
\* successful call.
C2_RetryThenSuccess ==
    /\ log # <<>> => log[1].op = "send"
    /\ \A i \in SendIdx(log) :
         /\ log[i].outcome = "ok" =>
              /\ i = Len(log)
              /\ NumSends(log) = NumSleeps(log) + 1
              /\ NumSleeps(log) < 5
              /\ \A j \in SendIdx(log) : j # i => log[j].outcome \in Retryable
         /\ i > 1 =>
              /\ i > 2
              /\ log[i - 1].op = "sleep"
              /\ log[i - 2].op = "send"
              /\ log[i - 2].outcome \in Retryable
    /\ \A i \in SleepIdx(log) :
         /\ i > 1
         /\ log[i - 1].op = "send"
         /\ log[i - 1].outcome = "retry_after" => log[i].secs = log[i - 1].secs
         /\ log[i - 1].outcome = "network" => log[i].secs = 5
         /\ log[i - 1].outcome \in Retryable

C2_Witness ==
    /\ sent
    /\ Len(log) = 5
    /\ log[1].outcome = "retry_after" /\ log[2].secs = 3
    /\ log[3].outcome = "network" /\ log[4].secs = 5
    /\ log[5].outcome = "ok"
    /\ pc = "msg"

\* the calls in the log are those made for body j of recipient i
LogIsFor(i, j) ==
    \A k \in SendIdx(log) :
        log[k].text = Msgs(i)[j] /\ log[k].to = telegram_ids[Handler(i)]

\* when the loop is at "msg" with m > 1, body m-1 of this recipient has just
\* been dealt with; if it was handed to the transport the log is still its own
JustFinished(st) == pc = "msg" /\ m > 1 /\ status[h][m - 1] = st

\* every body has reached the state its recipient and text call for
AllSettled ==
    \A b \in AllBodies :
        IF Sendable(b[1], b[2])
        THEN status[b[1]][b[2]] \in Attempted
        ELSE status[b[1]][b[2]] = "skipped"

\* C3: a failure that is neither rate-limited nor a network error abandons
\* the body at once: it is the last call made for the body and no sleep
\* follows it (a transport that always fails this way is called exactly once
\* per body); every later body and recipient is still processed: when
\* send_messages returns each sendable body has been handed to the transport
\* and each other one skipped.
C3_AbandonImmediately ==
    /\ \A i \in SendIdx(log) : log[i].outcome = "other" => i = Len(log)
    /\ (log # <<>> /\ log[1].outcome = "other") => Len(log) = 1
    /\ JustFinished("abandoned") =>
          /\ log # <<>>
          /\ log[Len(log)].outcome = "other"
          /\ LogIsFor(h, m - 1)
    /\ ((\E b \in AllBodies : status[b[1]][b[2]] = "abandoned") /\ pc # "done")
          => ENABLED SendNext
    /\ pc = "done" => AllSettled

C3_Witness ==
    /\ pc = "done"
    /\ Len(messages) = 2
    /\ status[1] = <<"abandoned", "abandoned">>
    /\ status[2] = <<"skipped", "skipped", "delivered">>
    /\ Len(log) = 1

\* C4: a body whose recipient has no entry (or a zero identifier) in the
\* directory, or that is blank after trimming, is skipped without any
\* transport call or sleep; skipping stops nothing, so every remaining body
\* is still processed; the transport is called only with a non-zero mapped
\* identifier and a non-blank body.
C4_SkipWithoutSend ==
    /\ [](\A k \in SendIdx(log) :
            /\ log[k].to # 0
            /\ Strip(log[k].text) # <<>>)
    /\ [](pc = "while" => (Sendable(h, m) /\ LogIsFor(h, m)))
    /\ [](\A b \in AllBodies :
            status[b[1]][b[2]] = "skipped" <=>
               (status[b[1]][b[2]] # "pending" /\ ~Sendable(b[1], b[2])))
    /\ [](pc = "done" => AllSettled)
    /\ [][(\E b \in AllBodies :
               status[b[1]][b[2]] # status'[b[1]][b[2]]
               /\ status'[b[1]][b[2]] = "skipped")
           => (log' = log /\ pc' \in {"handler", "msg"})]_vars
    /\ [][log' # log =>
             \/ log' = <<>>
             \/ /\ pc = "while" /\ Sendable(h, m)
                /\ Len(log') > Len(log)
                /\ SubSeq(log', 1, Len(log)) = log
                /\ \A k \in (Len(log) + 1)..Len(log') :
                      log'[k].op = "send" =>
                         /\ log'[k].to = telegram_ids[Handler(h)]
                         /\ log'[k].text = Msgs(h)[m]]_vars

C4_Witness ==
    /\ pc = "done"
    /\ Len(messages) = 2
    /\ Handler(1) \notin DOMAIN telegram_ids
    /\ status[1] = <<"skipped">>
    /\ status[2] = <<"skipped", "skipped", "delivered">>
    /\ NumSends(log) = 1

\* how the log must look for a body that ended in state st
FinalLog(st) ==
    CASE st = "delivered" ->
            /\ log # <<>>
            /\ log[Len(log)].outcome = "ok"
            /\ Cardinality({k \in SendIdx(log) : log[k].outcome = "ok"}) = 1
      [] st = "abandoned" ->
            /\ log # <<>>
            /\ log[Len(log)].outcome = "other"
      [] st = "exhausted" ->
            /\ NumSends(log) = 5
            /\ \A k \in SendIdx(log) : log[k].outcome \in Retryable

\* C10: whatever the directory, the messages and the transport do,
\* send_messages returns, and then every body is in exactly one final state:
\* skipped (no identifier or blank), delivered (one successful call),
\* abandoned (a non-retryable failure) or exhausted (5 retryable failures);
\* exhausting the attempts for one body does not stop the remaining ones.
C10_TerminatesAllFinal ==
    /\ <>(pc = "done")
    /\ [](pc = "done" => AllSettled)
    /\ [](\A st \in Attempted :
            JustFinished(st) => (FinalLog(st) /\ LogIsFor(h, m - 1)))
    /\ [](pc # "done" => ENABLED SendNext)

C10_Witness ==
    /\ pc = "done"
    /\ Len(messages) = 2
    /\ status[1] = <<"exhausted", "delivered">>
    /\ status[2] = <<"skipped", "skipped", "exhausted">>

(***************************************************************************)
(* filter_not_yet                                                          *)
(***************************************************************************)
MaxFilterRows == 2

\* the days "today" is drawn from, and the due dates of the rows
Todays == {10, 11}

DueDates == {9, 10, 11, 12}

\* rows as fetch_data leaves them, and rows lacking one of the fields read
FilterRows ==
    { [k \in {K_checked, K_handOver, K_dueDate} |->
          IF k = K_checked THEN c ELSE IF k = K_handOver THEN o ELSE d] :
      c \in BOOLEAN, o \in BOOLEAN, d \in {None} \cup {Some(x) : x \in DueDates} }
    \cup
    { [k \in {K_handOver, K_dueDate} |->
          IF k = K_handOver THEN TRUE ELSE Some(11)],
      [k \in {K_checked, K_dueDate} |->
          IF k = K_checked THEN TRUE ELSE Some(11)],
      [k \in {K_checked, K_handOver} |-> FALSE] }

\* variant: a row due today is treated as overdue
due_date_valid_Strict(row, td) ==
    LET due_date == Get(row, K_dueDate, None)
    IN  due_date # None /\ due_date[1] > td

\* due_date_valid = due_date is not None and due_date >= today
due_date_valid(row, td) ==
    LET due_date == Get(row, K_dueDate, None)
    IN  due_date # None /\ due_date[1] >= td

\* if (not checked_val or not handover_val) and due_date_valid
KeepRow(row, td) ==
    LET checked_val  == Get(row, K_checked, FALSE)
        handover_val == Get(row, K_handOver, FALSE)
    IN  (~checked_val \/ ~handover_val) /\ due_date_valid(row, td)

\* the for loop: rows i.. of dl appended to filtered when kept
RECURSIVE FilterLoop(_, _, _, _)
FilterLoop(dl, td, i, filtered) ==
    IF i > Len(dl) THEN filtered
    ELSE FilterLoop(dl, td, i + 1,
                    IF KeepRow(dl[i], td) THEN Append(filtered, dl[i])
                    ELSE filtered)

filter_not_yet(dl, td) == FilterLoop(dl, td, 1, <<>>)

FilterInit ==
    /\ SendIdle
    /\ \E n \in 0..MaxFilterRows : data_list \in [1..n -> FilterRows]
    /\ today \in Todays
    /\ stage = "input"
    /\ result = <<>>
    /\ all_data = <<>>
    /\ fetched = <<>>
    /\ grouped_data = <<>>
    /\ blocks = <<>>

FilterCall ==
    /\ stage = "input"
    /\ result' = filter_not_yet(data_list, today)
    /\ stage' = "filtered"
    /\ UNCHANGED <<all_data, fetched, data_list, grouped_data, blocks, today>>
    /\ UNCHANGED sendVars

FilterNext == FilterCall

SpecFilter == FilterInit /\ [][FilterNext]_vars

\* the k-th smallest element of a set of numbers
Nth(S, k) == CHOOSE i \in S : Cardinality({j \in S : j < i}) = k - 1

\* the rows at the positions P of a list, in list order
RowsAt(dl, P) == [k \in 1..Cardinality(P) |-> dl[Nth(P, k)]]

IsTrue(row, key) == key \in DOMAIN row /\ row[key] = TRUE

DueOn(row) == IF K_dueDate \in DOMAIN row THEN row[K_dueDate] ELSE None

\* "(not checked OR not handOver) AND dueDate is present AND dueDate >= today"
Actionable(row) ==
    /\ ~(IsTrue(row, K_checked) /\ IsTrue(row, K_handOver))
    /\ DueOn(row) # None
    /\ \E d \in DueDates : DueOn(row) = Some(d) /\ ~(d < today)

\* C5: filter_not_yet returns exactly the actionable rows of its input, in
\* input order and unchanged: a row due today is kept, a row due yesterday is
\* dropped, a row without due date is dropped whatever its flags, and a row
\* both checked and handed over is dropped even when due in the future.
C5_FilterExact ==
    stage = "filtered" =>
        /\ result = RowsAt(data_list,
                           {i \in 1..Len(data_list) : Actionable(data_list[i])})
        /\ \A i \in 1..Len(data_list) :
             LET row == data_list[i]
                 kept == \E k \in 1..Len(result) : result[k] = row
             IN  /\ (DueOn(row) = Some(today)
                       /\ ~(IsTrue(row, K_checked) /\ IsTrue(row, K_handOver)))
                      => kept
                 /\ DueOn(row) = Some(today - 1) => ~kept
                 /\ DueOn(row) = None => ~kept
                 /\ (IsTrue(row, K_checked) /\ IsTrue(row, K_handOver)) => ~kept

C5_Witness ==
    /\ stage = "filtered"
    /\ Len(data_list) = 2
    /\ DueOn(data_list[1]) = Some(today - 1)
    /\ DueOn(data_list[2]) = Some(today)
    /\ IsTrue(data_list[2], K_handOver)
    /\ result = <<data_list[2]>>

(***************************************************************************)
(* group_by_handle_by                                                      *)
(***************************************************************************)
MaxGroupRows == 2

MaxKeyLen == 2

\* the characters a handleBy cell is made of here
KeyChars == {"A", "a", " "}

RECURSIVE TextsUpTo(_, _)
TextsUpTo(chars, n) ==
    IF n = 0 THEN {<<>>}
    ELSE LET shorter == TextsUpTo(chars, n - 1)
         IN  shorter \cup {Append(t, c) : t \in shorter, c \in chars}

HandleByValues == TextsUpTo(KeyChars, MaxKeyLen)

\* the row at position i: its assignment is the digit of i
RowLabel(i) == <<"0", "1", "2", "3", "4", "5", "6", "7", "8", "9">>[i + 1]

GroupRow(i, hb) ==
    IF hb = None
    THEN [k \in {K_assignment} |-> <<RowLabel(i)>>]
    ELSE [k \in {K_assignment, K_handleBy} |->
             IF k = K_assignment THEN <<RowLabel(i)>> ELSE hb[1]]

\* {k: v for k, v in row.items() if k != 'handleBy'}
RowCopy(row) == [k \in DOMAIN row \ {K_handleBy} |-> row[k]]

DictKeys(d) == {d[i][1] : i \in 1..Len(d)}

DictIndex(d, key) == CHOOSE i \in 1..Len(d) : d[i][1] = key

DictGet(d, key) == d[DictIndex(d, key)][2]

\* grouped.setdefault(key, []).append(row_copy)
SetDefaultAppend(grouped, key, row_copy) ==
    IF key \in DictKeys(grouped)
    THEN [grouped EXCEPT ![DictIndex(grouped, key)][2] = Append(@, row_copy)]
    ELSE Append(grouped, <<key, <<row_copy>>>>)

\* the for loop of group_by_handle_by from row i on
RECURSIVE GroupLoop(_, _, _)
GroupLoop(dl, i, grouped) ==
    IF i > Len(dl) THEN grouped
    ELSE LET key == Get(dl[i], K_handleBy, <<>>)
         IN  IF key = <<>>
             THEN GroupLoop(dl, i + 1, grouped)
             ELSE GroupLoop(dl, i + 1,
                            SetDefaultAppend(grouped, Lower(Strip(key)),
                                             RowCopy(dl[i])))

group_by_handle_by(dl) == GroupLoop(dl, 1, <<>>)

GroupInit ==
    /\ SendIdle
    /\ \E n \in 0..MaxGroupRows :
         \E hb \in [1..n -> {None} \cup {Some(t) : t \in HandleByValues}] :
            data_list = [i \in 1..n |-> GroupRow(i, hb[i])]
    /\ today = 0
    /\ stage = "input"
    /\ result = <<>>
    /\ all_data = <<>>
    /\ fetched = <<>>
    /\ grouped_data = <<>>
    /\ blocks = <<>>

GroupCall ==
    /\ stage = "input"
    /\ result' = group_by_handle_by(data_list)
    /\ stage' = "grouped"
    /\ UNCHANGED <<all_data, fetched, data_list, grouped_data, blocks, today>>
    /\ UNCHANGED sendVars

GroupNext == GroupCall

SpecGroup == GroupInit /\ [][GroupNext]_vars

HandleByOf(row) == Get(row, K_handleBy, <<>>)

\* the groups in which the row at position i of the input appears
GroupsOf(i) ==
    {k \in DictKeys(result) :
        \E j \in 1..Len(DictGet(result, k)) :
            DictGet(result, k)[j][K_assignment] = <<RowLabel(i)>>}

\* C6: every key of the mapping group_by_handle_by returns is a non-empty,
\* trimmed, lowercased text; a row whose handleBy is empty or blank after
\* trimming is in no group and creates no group under the empty key; rows
\* whose handleBy differ only in case or surrounding whitespace share a group.
C6_KeysNormalised ==
    stage = "grouped" =>
        /\ \A k \in DictKeys(result) : k # <<>> /\ Strip(k) = k /\ Lower(k) = k
        /\ \A i \in 1..Len(data_list) :
             Strip(HandleByOf(data_list[i])) = <<>> => GroupsOf(i) = {}
        /\ \A i, j \in 1..Len(data_list) :
             (/\ Strip(HandleByOf(data_list[i])) # <<>>
              /\ Lower(Strip(HandleByOf(data_list[i])))
                   = Lower(Strip(HandleByOf(data_list[j]))))
             => (GroupsOf(i) = GroupsOf(j) /\ Cardinality(GroupsOf(i)) = 1)

(***************************************************************************)
(* fetch_data                                                              *)
(***************************************************************************)
\* len(RANGES)
NumRanges == 6

\* rows a fetched column can hold, header row included
MaxColLen == 3

Separators == {"_", "-"}

RECURSIVE DropSeparators(_)
DropSeparators(s) ==
    IF s # <<>> /\ Head(s) \in Separators THEN DropSeparators(Tail(s)) ELSE s

\* re.sub(r'(_|-)+', ' ', text)
RECURSIVE ReSubSeparators(_)
ReSubSeparators(s) ==
    IF s = <<>> THEN <<>>
    ELSE IF Head(s) \in Separators
         THEN <<" ">> \o ReSubSeparators(DropSeparators(s))
         ELSE <<Head(s)>> \o ReSubSeparators(Tail(s))

\* text.split(' '): cur is the word being read, words those already read
RECURSIVE SplitLoop(_, _, _)
SplitLoop(s, cur, words) ==
    IF s = <<>> THEN Append(words, cur)
    ELSE IF Head(s) = " "
         THEN SplitLoop(Tail(s), <<>>, Append(words, cur))
         ELSE SplitLoop(Tail(s), Append(cur, Head(s)), words)

Split(s) == SplitLoop(s, <<>>, <<>>)

IsLetter(c) == IsUpper(c) \/ IsLower(c)

\* word.title()
Title(w) ==
    [i \in 1..Len(w) |->
        IF i = 1 \/ ~IsLetter(w[i - 1]) THEN UpperChar(w[i]) ELSE LowerChar(w[i])]

\* ''.join(word.title() for word in words[i:])
RECURSIVE JoinTitles(_, _)
JoinTitles(words, i) ==
    IF i > Len(words) THEN <<>> ELSE Title(words[i]) \o JoinTitles(words, i + 1)

camel_case(text) ==
    LET words == Split(Lower(Strip(ReSubSeparators(text))))
    IN  words[1] \o JoinTitles(words, 2)

\* the header cell of each column as the sheet may hold it
HeaderCells ==
    << <<"A", "s", "s", "i", "g", "n", "m", "e", "n", "t">>,
       <<"C", "u", "s", "t", "o", "m", "e", "r", " ", "N", "a", "m", "e">>,
       <<"C", "h", "e", "c", "k", "e", "d">>,
       <<"h", "a", "n", "d", "_", "o", "v", "e", "r">>,
       <<"D", "u", "e", "-", "D", "a", "t", "e">>,
       <<"H", "a", "n", "d", "l", "e", " ", "B", "y">> >>

\* the data rows of each column, repeated down the column; <<>> is a row
\* without a cell
DataRows ==
    << << <<<<"I", "n", "v">>>>, <<>>, <<<<"a", ".", "b">>>> >>,
       << <<<<"A", "c", "m", "e">>>>, <<<<>>>>, <<<<"X", "!">>>> >>,
       << <<<<"N", "o", "t", " ", "Y", "e", "t">>>>, <<<<"y", "e", "s">>>>, <<>> >>,
       << <<<<" ", "n", "o", "t", " ", "y", "e", "t", " ">>>>, <<<<"o", "k">>>>, <<<<"N", "O", "T", " ", "Y", "E", "T">>>> >>,
       << <<<<"1", "1">>>>, <<<<"s", "o", "o", "n">>>>, <<<<"9">>>> >>,
       << <<<<"B", "o", "b">>>>, <<<<" ">>>>, <<<<" ", "b", "o", "b", " ">>>> >> >>

\* columns whose header row may come back without a cell
BlankHeaderColumns == {2}

\* what the sheet can return for locator r: the first n rows of the column
ColumnResults(r) ==
    { [i \in 1..n |->
          IF i = 1 THEN hd
          ELSE DataRows[r][((i - 2) % Len(DataRows[r])) + 1]] :
      n \in 0..MaxColLen,
      hd \in {<<HeaderCells[r]>>}
             \cup (IF r \in BlankHeaderColumns THEN {<<>>} ELSE {}) }

FetchInit ==
    /\ SendIdle
    /\ all_data = <<>>
    /\ fetched = <<>>
    /\ data_list = <<>>
    /\ result = <<>>
    /\ stage = "fetching"
    /\ today = 0
    /\ grouped_data = <<>>
    /\ blocks = <<>>

\* values = result.get('values', []); all_data[range_name] = values
FetchOk ==
    /\ stage = "fetching"
    /\ Len(fetched) < NumRanges
    /\ \E values \in ColumnResults(Len(fetched) + 1) :
         all_data' = Append(all_data, values)
    /\ fetched' = Append(fetched, "ok")
    /\ UNCHANGED <<data_list, grouped_data, blocks, today, result, stage>>
    /\ UNCHANGED sendVars

\* except Exception: all_data[range_name] = []
FetchFailed ==
    /\ stage = "fetching"
    /\ Len(fetched) < NumRanges
    /\ all_data' = Append(all_data, <<>>)
    /\ fetched' = Append(fetched, "failed")
    /\ UNCHANGED <<data_list, grouped_data, blocks, today, result, stage>>
    /\ UNCHANGED sendVars

\* all_data[r][0][0] if the column has a first row with a cell, else ''
HeaderOf(values) ==
    IF values # <<>> /\ Len(values[1]) > 0 THEN values[1][1] ELSE <<>>

Headers(ad) == [r \in 1..NumRanges |-> camel_case(HeaderOf(ad[r]))]

\* variant: the longest column decides the number of rows
num_rows_Longest(ad) ==
    LET longest == CHOOSE r \in 1..NumRanges :
                      \A q \in 1..NumRanges : Len(ad[q]) <= Len(ad[r])
    IN  IF ad[longest] # <<>> THEN Len(ad[longest]) - 1 ELSE 0

\* num_rows = len(all_data[RANGES[0]]) - 1 if all_data[RANGES[0]] else 0
num_rows(ad) == IF ad[1] # <<>> THEN Len(ad[1]) - 1 ELSE 0

\* values[i][0] if i < len(values) and len(values[i]) > 0 else ''
\* (i counts from 0 as in the code)
ColVal(values, i) ==
    IF i < Len(values) /\ Len(values[i + 1]) > 0 THEN values[i + 1][1] ELSE <<>>

\* row[key] = val
Put(row, key, val) ==
    [k \in DOMAIN row \cup {key} |-> IF k = key THEN val ELSE row[k]]

\* for idx, r in enumerate(RANGES): row[headers[idx]] = val
RECURSIVE RowLoop(_, _, _, _)
RowLoop(ad, i, idx, row) ==
    IF idx > NumRanges THEN row
    ELSE RowLoop(ad, i, idx + 1,
                 Put(row, Headers(ad)[idx], ColVal(ad[idx], i)))

\* for i in range(1, num_rows + 1): data_list.append(row)
BuildRows ==
    /\ stage = "fetching"
    /\ Len(fetched) = NumRanges
    /\ data_list' = [i \in 1..num_rows(all_data) |->
                        RowLoop(all_data, i, 1, <<>>)]
    /\ stage' = "built"
    /\ UNCHANGED <<all_data, fetched, grouped_data, blocks, today, result>>
    /\ UNCHANGED sendVars

NotYet == <<"n", "o", "t", " ", "y", "e", "t">>

Digits == <<"0", "1", "2", "3", "4", "5", "6", "7", "8", "9">>

IsDigit(c) == \E i \in 1..Len(Digits) : Digits[i] = c

RECURSIVE DecimalValue(_)
DecimalValue(s) ==
    IF s = <<>> THEN 0
    ELSE 10 * DecimalValue(SubSeq(s, 1, Len(s) - 1))
         + (LetterIndex(s[Len(s)], Digits) - 1)

\* parse(due_date_str).date(): a day number is a date, any other text makes
\* the parser raise (None)
ParseDate(s) ==
    IF s # <<>> /\ \A i \in 1..Len(s) : IsDigit(s[i])
    THEN Some(DecimalValue(s))
    ELSE None

\* the body of "for row in data_list" that types checked, handOver, dueDate
CoerceRow(row) ==
    LET checked  == ~(Lower(Strip(Get(row, K_checked, <<>>))) = NotYet)
        handOver == ~(Lower(Strip(Get(row, K_handOver, <<>>))) = NotYet)
        due_date_str == Strip(Get(row, K_dueDate, <<>>))
        dueDate  == IF due_date_str # <<>> THEN ParseDate(due_date_str) ELSE None
    IN  Put(Put(Put(row, K_checked, checked), K_handOver, handOver),
            K_dueDate, dueDate)

Coerce ==
    /\ stage = "built"
    /\ result' = [i \in 1..Len(data_list) |-> CoerceRow(data_list[i])]
    /\ stage' = "fetched"
    /\ UNCHANGED <<all_data, fetched, data_list, grouped_data, blocks, today>>
    /\ UNCHANGED sendVars

FetchNext ==
    \/ FetchOk
    \/ FetchFailed
    \/ BuildRows
    \/ Coerce

SpecFetch == FetchInit /\ [][FetchNext]_vars

\* the last column that writes the key of column r into a row
IsLastWriter(r) ==
    \A q \in (r + 1)..NumRanges : Headers(all_data)[q] # Headers(all_data)[r]

\* C7: fetch_data returns as many records as the first locator's result has
\* rows after its header (none when that result is empty), whatever the other
\* columns hold; a failed fetch leaves only that column empty and the other
\* locators are still fetched; a column shorter than the row count gives ''
\* for the rows it does not reach.
C7_RowCountFromFirstColumn ==
    /\ \A r \in 1..Len(fetched) : fetched[r] = "failed" => all_data[r] = <<>>
    /\ stage # "fetching" =>
          /\ Len(fetched) = 6 /\ Len(all_data) = 6
          /\ Len(data_list) =
                (IF Len(all_data[1]) = 0 THEN 0 ELSE Len(all_data[1]) - 1)
          /\ \A r \in 1..6 : \A i \in 1..Len(data_list) :
                (i + 1 > Len(all_data[r]) /\ IsLastWriter(r))
                    => data_list[i][Headers(all_data)[r]] = <<>>
    /\ stage = "fetched" => Len(result) = Len(data_list)

C7_Witness ==
    /\ stage = "fetched"
    /\ fetched[1] = "ok" /\ Len(all_data[1]) = 3
    /\ fetched[3] = "failed"
    /\ Len(all_data[5]) = 3
    /\ Len(all_data[6]) = 2
    /\ Len(result) = 2
    /\ result[2][K_handleBy] = <<>>
    /\ result[1][K_handleBy] = <<"B", "o", "b">>

(***************************************************************************)
(* escape_markdown, generate_messages                                      *)
(***************************************************************************)
\* assignments the first recipient of a rendered mapping can have
MaxAssignments == 2

\* the grave accent, which cannot be written inside a string here
GraveAccent == "[grave accent]"

\* escape_chars: _ * [ ] ( ) ~ grave accent > # + - = | { } . !
EscapeChars ==
    {"_", "*", "[", "]", "(", ")", "~", GraveAccent, ">", "#", "+", "-", "=",
     "|", "{", "}", ".", "!"}

\* re.sub: every character of escape_chars gets a backslash before it
RECURSIVE EscapeEach(_)
EscapeEach(text) ==
    IF text = <<>> THEN <<>>
    ELSE (IF Head(text) \in EscapeChars THEN <<"\\", Head(text)>>
          ELSE <<Head(text)>>) \o EscapeEach(Tail(text))

escape_markdown(text) == IF text = <<>> THEN <<>> ELSE EscapeEach(text)

\* str(n) for n >= 0
RECURSIVE IntToText(_)
IntToText(n) ==
    IF n < 10 THEN <<Digits[n + 1]>>
    ELSE IntToText(n \div 10) \o <<Digits[(n % 10) + 1]>>

\* the month all dates of the model lie in, as '%Y-%m-' prints it
YearMonth == <<"2", "0", "2", "6", "-", "1", "1", "-">>

\* today.strftime('%Y-%m-%d') for day number d of that month
DateStr(d) == YearMonth \o (IF d < 10 THEN <<"0">> ELSE <<>>) \o IntToText(d)

\* variant: a row due today counts as overdue
DueStr_TodayIsPast(due_date, td) ==
    IF due_date # None
    THEN LET days_remaining == due_date[1] - td
         IN  IF days_remaining <= 0 THEN <<"P", "a", "s", "t", " ", "d", "u", "e", "!">>
             ELSE IF days_remaining = 1 THEN <<"D", "u", "e", " ", "i", "n", " ", "1", " ", "d", "a", "y">>
             ELSE <<"D", "u", "e", " ", "i", "n", " ">> \o IntToText(days_remaining) \o <<" ", "d", "a", "y", "s">>
    ELSE <<"N", "o", " ", "d", "u", "e", " ", "d", "a", "t", "e">>

\* the if/elif chain that picks due_str, before it is escaped
DueStr(due_date, td) ==
    IF due_date # None
    THEN LET days_remaining == due_date[1] - td
         IN  IF days_remaining < 0 THEN <<"P", "a", "s", "t", " ", "d", "u", "e", "!">>
             ELSE IF days_remaining = 0 THEN <<"D", "u", "e", " ", "t", "o", "d", "a", "y">>
             ELSE IF days_remaining = 1 THEN <<"D", "u", "e", " ", "i", "n", " ", "1", " ", "d", "a", "y">>
             ELSE <<"D", "u", "e", " ", "i", "n", " ">> \o IntToText(days_remaining) \o <<" ", "d", "a", "y", "s">>
    ELSE <<"N", "o", " ", "d", "u", "e", " ", "d", "a", "t", "e">>

\* the values interpolated into the block of one assignment
BlockOf(assignment, td) ==
    [assignment_name |->
        escape_markdown(Get(assignment, K_assignment, <<"N", "o", " ", "A", "s", "s", "i", "g", "n", "m", "e", "n", "t">>)),
     customer_name |->
        escape_markdown(Get(assignment, K_customerName, <<"U", "n", "k", "n", "o", "w", "n", " ", "C", "u", "s", "t", "o", "m", "e", "r">>)),
     due_str |-> escape_markdown(DueStr(Get(assignment, K_dueDate, None), td)),
     checked_str |->
        IF Get(assignment, K_checked, FALSE) THEN <<"checked">>
        ELSE <<"not checked">>,
     handover_str |->
        IF Get(assignment, K_handOver, FALSE) THEN <<"handed over">>
        ELSE <<"not handed over">>]

\* the f-string of one block; "[bullet]" stands for the bullet character
Line(b) ==
    <<"[bullet] *Assignment:* ">> \o b.assignment_name \o <<"\n">>
    \o <<"  *Customer:* ">> \o b.customer_name \o <<"\n">>
    \o <<"  *Status:* ">> \o b.checked_str \o <<" and ">> \o b.handover_str
    \o <<"\n">>
    \o <<"  *">> \o b.due_str \o <<"*">>

\* the heading; "[clipboard]" stands for the clipboard emoji
Heading(td) ==
    <<"[clipboard] *Your Assignments as of ">> \o escape_markdown(DateStr(td))
    \o <<":*">>

\* '\n\n'.join(lines)
RECURSIVE JoinLines(_)
JoinLines(lines) ==
    IF Len(lines) = 0 THEN <<>>
    ELSE IF Len(lines) = 1 THEN lines[1]
    ELSE lines[1] \o <<"\n", "\n">> \o JoinLines(Tail(lines))

FullMessage(bs, td) ==
    JoinLines(<<Heading(td)>> \o [j \in 1..Len(bs) |-> Line(bs[j])])

\* messages[handler] = [full_message]
DictPut(d, key, val) ==
    IF key \in DictKeys(d)
    THEN [d EXCEPT ![DictIndex(d, key)][2] = val]
    ELSE Append(d, <<key, val>>)

BlocksOf(assignments, td) ==
    [j \in 1..Len(assignments) |-> BlockOf(assignments[j], td)]

\* the loop over grouped_data.items() from entry i on
RECURSIVE RenderLoop(_, _, _, _)
RenderLoop(gd, td, i, msgs) ==
    IF i > Len(gd) THEN msgs
    ELSE RenderLoop(gd, td, i + 1,
                    DictPut(msgs, gd[i][1],
                            <<FullMessage(BlocksOf(gd[i][2], td), td)>>))

generate_messages(gd, td) == RenderLoop(gd, td, 1, <<>>)

\* grouped rows: how the names are filled in, and the flags
NameCases ==
    { [has |-> {}, assignment |-> <<>>, customerName |-> <<>>,
       checked |-> FALSE, handOver |-> FALSE],
      [has |-> {K_assignment, K_customerName, K_checked, K_handOver},
       assignment |-> <<>>, customerName |-> <<>>,
       checked |-> TRUE, handOver |-> FALSE],
      [has |-> {K_assignment, K_customerName, K_checked, K_handOver},
       assignment |-> <<"a", ".", "b">>, customerName |-> <<"X", "!">>,
       checked |-> FALSE, handOver |-> TRUE],
      [has |-> {K_assignment, K_customerName, K_checked},
       assignment |-> <<" ">>, customerName |-> <<"A", "c", "m", "e">>,
       checked |-> FALSE, handOver |-> FALSE] }

\* the dueDate of a row (has_due: the row has the key at all)
RenderRow(nc, has_due, due) ==
    [k \in nc.has \cup (IF has_due THEN {K_dueDate} ELSE {}) |->
        IF k = K_assignment THEN nc.assignment
        ELSE IF k = K_customerName THEN nc.customerName
        ELSE IF k = K_checked THEN nc.checked
        ELSE IF k = K_handOver THEN nc.handOver
        ELSE due]

RenderRows ==
    {RenderRow(nc, TRUE, due) :
        nc \in NameCases, due \in {None} \cup {Some(d) : d \in DueDates}}
    \cup {RenderRow(nc, FALSE, None) : nc \in NameCases}

\* a second recipient, after the first or not at all
OtherRecipient ==
    << <<"b">>,
       << [k \in {K_assignment, K_dueDate} |->
              IF k = K_assignment THEN <<"I", "n", "v">> ELSE Some(12)],
          [k \in {K_customerName} |-> <<"A", "c", "m", "e">>] >> >>

RenderInit ==
    /\ SendIdle
    /\ \E n \in 0..MaxAssignments : \E rows \in [1..n -> RenderRows] :
         \E more \in {<<>>, <<OtherRecipient>>} :
            grouped_data = << << <<"a">>, rows >> >> \o more
    /\ today \in Todays
    /\ stage = "input"
    /\ result = <<>>
    /\ blocks = <<>>
    /\ all_data = <<>>
    /\ fetched = <<>>
    /\ data_list = <<>>

RenderCall ==
    /\ stage = "input"
    /\ result' = generate_messages(grouped_data, today)
    /\ blocks' = [i \in 1..Len(grouped_data) |->
                     BlocksOf(grouped_data[i][2], today)]
    /\ stage' = "rendered"
    /\ UNCHANGED <<all_data, fetched, data_list, grouped_data, today>>
    /\ UNCHANGED sendVars

RenderNext == RenderCall

SpecRender == RenderInit /\ [][RenderNext]_vars

\* the due-date phrase the table of days_remaining gives, as plain text
TablePhrase(row) ==
    LET due == IF K_dueDate \in DOMAIN row THEN row[K_dueDate] ELSE None
    IN  IF due = None THEN <<"N", "o", " ", "d", "u", "e", " ", "d", "a", "t", "e">>
        ELSE LET days_remaining == due[1] - today
             IN  CASE days_remaining < 0 -> <<"P", "a", "s", "t", " ", "d", "u", "e", "!">>
                   [] days_remaining = 0 -> <<"D", "u", "e", " ", "t", "o", "d", "a", "y">>
                   [] days_remaining = 1 -> <<"D", "u", "e", " ", "i", "n", " ", "1", " ", "d", "a", "y">>
                   [] days_remaining > 1 ->
                        <<"D", "u", "e", " ", "i", "n", " ">> \o <<Digits[days_remaining + 1]>>
                        \o <<" ", "d", "a", "y", "s">>

\* the same phrase as the message body carries it
EscapedTablePhrase(row) ==
    IF TablePhrase(row) = <<"P", "a", "s", "t", " ", "d", "u", "e", "!">> THEN <<"P", "a", "s", "t", " ", "d", "u", "e", "\\", "!">>
    ELSE TablePhrase(row)

\* one body per recipient key, in the order of the grouped input
OneBodyPerRecipient ==
    /\ Len(result) = Len(grouped_data)
    /\ \A i \in 1..Len(result) :
         /\ result[i][1] = grouped_data[i][1]
         /\ Len(result[i][2]) = 1
         /\ result[i][2][1] = FullMessage(blocks[i], today)
         /\ Len(blocks[i]) = Len(grouped_data[i][2])

\* C8 as stated: generate_messages gives exactly one body per recipient key,
\* and the due-date phrase of every block is "Past due!" for
\* days_remaining < 0, "Due today" for 0, "Due in 1 day" for 1, "Due in N
\* days" for N > 1 and "No due date" without due date.
C8_PhraseTableAsStated ==
    stage = "rendered" =>
        /\ OneBodyPerRecipient
        /\ \A i \in 1..Len(grouped_data) : \A j \in 1..Len(grouped_data[i][2]) :
             blocks[i][j].due_str = TablePhrase(grouped_data[i][2][j])

\* C8 amended: as above, but the phrase is escaped for MarkdownV2 before it
\* is put into the block, so days_remaining < 0 gives "Past due\!"; the other
\* phrases hold no escaped character and appear as in the table.
C8_PhraseTableEscaped ==
    stage = "rendered" =>
        /\ OneBodyPerRecipient
        /\ \A i \in 1..Len(grouped_data) : \A j \in 1..Len(grouped_data[i][2]) :
             blocks[i][j].due_str = EscapedTablePhrase(grouped_data[i][2][j])

C8_Witness ==
    /\ stage = "rendered"
    /\ Len(grouped_data) = 2
    /\ Len(result) = 2
    /\ Len(blocks[1]) = 2
    /\ blocks[1][1].due_str = <<"P", "a", "s", "t", " ", "d", "u", "e", "\\", "!">>
    /\ blocks[1][2].due_str = <<"D", "u", "e", " ", "i", "n", " ", "1", " ", "d", "a", "y">>
    /\ blocks[2][1].due_str = <<"D", "u", "e", " ", "i", "n", " ", "2", " ", "d", "a", "y", "s">>
    /\ blocks[2][2].due_str = <<"N", "o", " ", "d", "u", "e", " ", "d", "a", "t", "e">>

IsBlank(row, key) == key \notin DOMAIN row \/ Strip(row[key]) = <<>>

\* C9: a block shows "No Assignment" whenever the assignment field is absent
\* or blank and "Unknown Customer" whenever the customerName field is absent
\* or blank; no block shows an empty assignment name or customer name.
C9_DefaultNames ==
    stage = "rendered" =>
        \A i \in 1..Len(grouped_data) : \A j \in 1..Len(grouped_data[i][2]) :
            LET row == grouped_data[i][2][j]
            IN  /\ IsBlank(row, K_assignment) =>
                      blocks[i][j].assignment_name = <<"N", "o", " ", "A", "s", "s", "i", "g", "n", "m", "e", "n", "t">>
                /\ IsBlank(row, K_customerName) =>
                      blocks[i][j].customer_name = <<"U", "n", "k", "n", "o", "w", "n", " ", "C", "u", "s", "t", "o", "m", "e", "r">>
                /\ blocks[i][j].assignment_name # <<>>
                /\ blocks[i][j].customer_name # <<>>

=============================================================================
